---- MODULE Spec2Model ----
(***************************************************************************)
(* Model of AMM/project/test-utils/src/setup.rs: the test-environment      *)
(* orchestration of an AMM registry and its exchange contracts.            *)
(*                                                                         *)
(* The ledger (fuels provider, deployed contracts) is an external          *)
(* collaborator: every call that reaches it is issued by one action and    *)
(* answered by a second one, which either delivers the result or makes     *)
(* the `.unwrap()` of the call panic.  Every call is recorded in `log`.    *)
(*                                                                         *)
(* Identifiers: an AssetId is a natural number; a ContractId is the        *)
(* triple <<binary, storage image, salt>> it is derived from; u64/usize    *)
(* quantities are integers (no value of the model comes near 2^31, let     *)
(* alone 2^64), and the one narrowing cast of the code, `as u8`, is        *)
(* modelled by its width.                                                  *)
(***************************************************************************)
EXTENDS Integers, Sequences, FiniteSets, TLC

VARIABLES
    mode,            \* the entry point that is executed
    pc,              \* position inside the executed function
    status,          \* "running", "done" or "panicked"
    panic,           \* the panic message, "" while none
    asset_ids,       \* setup_exchange_contracts: the asset list
    exchange_index,  \* setup_exchange_contracts: the loop counter
    config,          \* the ExchangeContractConfiguration in use
    liquidity_parameters, \* the LiquidityParameters in use
    deadline_height, \* the block height answered by latest_block_height()
    instance,        \* the ContractId deploy_exchange returned, or None
    exchange,        \* the ExchangeContract being provisioned / funded
    pools,           \* amm.pools, the local HashMap pair -> ExchangeContract
    registered,      \* add_pool calls completed on the registry contract
    pools_at_entry,  \* amm.pools as it was when the entry point was called
    height,          \* the ledger's block height
    resources,       \* the wallet's spendable resources on the ledger
    assets,          \* transaction_inputs_outputs: the asset list
    amounts,         \* transaction_inputs_outputs: Option<&Vec<u64>>
    asset_index,     \* transaction_inputs_outputs: the loop counter
    input_coins,     \* transaction_inputs_outputs: the inputs collected
    output_variables, \* transaction_inputs_outputs: the outputs collected
    returned,        \* the value the entry point returned, None before
    log              \* the calls issued to the ledger, in order

vars == <<mode, pc, status, panic, asset_ids, exchange_index, config,
          liquidity_parameters, deadline_height, instance, exchange, pools,
          registered, pools_at_entry, height, resources, assets, amounts,
          asset_index, input_coins, output_variables, returned, log>>

setup_vars == <<asset_ids, exchange_index, config, liquidity_parameters,
                deadline_height, instance, exchange, pools, registered,
                pools_at_entry, height>>

tx_vars == <<resources, assets, amounts, asset_index, input_coins,
             output_variables>>

----------------------------------------------------------------------------
(* Bounds of the model *)

NumAssets == 3      \* asset ids 1..NumAssets are used in the short lists
MaxAssets == 3      \* the longest short asset list
LongLen == 258      \* length of the long asset list (more than 2^8 pools)
NumTxAssets == 2    \* asset ids 1..NumTxAssets are held by the wallet
MaxTxAssets == 2    \* the longest asset list of transaction_inputs_outputs
MaxCoins == 2       \* coins_per_asset is 1..MaxCoins

\* Option<T>: None, or Some(x)
None == <<>>
Some(x) == <<x>>
Unwrap(o) == o[1]
UnwrapOr(o, d) == IF o = None THEN d ELSE o[1]

AssetIds == 1..NumAssets

\* the block heights a run may start at
InitialHeights == {0, 5}

RECURSIVE SeqsOfLen(_, _)
SeqsOfLen(S, n) ==
    IF n = 0 THEN {<<>>}
    ELSE {Append(s, x) : s \in SeqsOfLen(S, n - 1), x \in S}

SeqsUpTo(S, n) == UNION {SeqsOfLen(S, k) : k \in 0..n}

----------------------------------------------------------------------------
(* Paths and constants of the crate *)

EXCHANGE_CONTRACT_BINARY_PATH == "exchange.bin"
EXCHANGE_CONTRACT_STORAGE_PATH == "exchange-storage_slots.json"
MALICIOUS_EXCHANGE_CONTRACT_BINARY_PATH == "malicious.bin"
MALICIOUS_EXCHANGE_CONTRACT_STORAGE_PATH == "malicious-storage_slots.json"

----------------------------------------------------------------------------
(* Pure parts of the code *)

\* ExchangeContractConfiguration::new(pair, compute_bytecode_root, malicious,
\* salt): every argument optional, None replaced by the default.
ExchangeContractConfiguration_new(pair, compute_bytecode_root, malicious, salt) ==
    [pair |-> UnwrapOr(pair, <<1, 2>>),
     compute_bytecode_root |-> UnwrapOr(compute_bytecode_root, FALSE),
     malicious |-> UnwrapOr(malicious, FALSE),
     salt |-> UnwrapOr(salt, [k \in 1..32 |-> 0])]

\* LiquidityParameters::new(amounts, deadline, liquidity)
LiquidityParameters_new(amts, deadline, liquidity) ==
    [amounts |-> UnwrapOr(amts, <<0, 0>>),
     deadline |-> UnwrapOr(deadline, 0),
     liquidity |-> UnwrapOr(liquidity, 0)]

\* `len - 1` on usize and the loop test `exchange_index < len - 1`.  For
\* len = 0 the subtraction overflows: a build with overflow checks panics
\* there (LoopOverflows); a build without wraps to 2^64 - 1, which exceeds
\* every index, so the test is true.
LoopOverflows(len) == len = 0
LoopCondition(index, len) == IF len = 0 THEN TRUE ELSE index < len - 1

\* asset_ids.get(i): None outside the list (i is zero-based)
Get(ids, i) == IF i < Len(ids) THEN Some(ids[i + 1]) ELSE None

\* the pair of iteration `index`
AssetPairSameIndex(ids, index) ==
    <<Unwrap(Get(ids, index)), Unwrap(Get(ids, index))>>
AssetPair(ids, index) ==
    <<Unwrap(Get(ids, index)), Unwrap(Get(ids, index + 1))>>

\* [(exchange_index as u8); 32]
SaltOf(index) == [k \in 1..32 |-> index % 256]

\* (100_000, 100_000 * (exchange_index as u64 + 1))
AmountsFromIndex(index) == <<100000, 100000 * index>>
Amounts(index) == <<100000, 100000 * (index + 1)>>

\* provider.latest_block_height() + 10
DeadlineIsHeight(h) == h
DeadlineOf(h) == h + 10

\* Some(100_000), the liquidity argument
MinLiquidity == 100000

\* the default amount asked for when `amounts` is None
MAXIMUM_INPUT_AMOUNT == 1000000

BinaryPath(cfg) ==
    IF cfg.malicious THEN MALICIOUS_EXCHANGE_CONTRACT_BINARY_PATH
    ELSE EXCHANGE_CONTRACT_BINARY_PATH

StoragePath(cfg) ==
    IF cfg.malicious THEN MALICIOUS_EXCHANGE_CONTRACT_STORAGE_PATH
    ELSE EXCHANGE_CONTRACT_STORAGE_PATH

\* The identity the ledger derives for a deployment: a hash of the binary,
\* the storage image and the salt, modelled by the triple itself.
ContractIdAtHeight(binary, storage, salt) == <<binary, storage, salt, height>>
ContractIdOf(binary, storage, salt) == <<binary, storage, salt>>

\* exchange_bytecode_root(): the root of the legitimate binary's code
exchange_bytecode_root == <<"root", EXCHANGE_CONTRACT_BINARY_PATH>>

\* HashMap::insert: the entry of `pair` is created or replaced
PoolsInsertUnordered(map, pair, ex) ==
    [p \in (DOMAIN map \ {<<pair[2], pair[1]>>}) \cup {pair} |->
        IF p = pair THEN ex ELSE map[p]]
PoolsInsertDropsOthers(map, pair, ex) == [p \in {pair} |-> ex]
PoolsInsertReversedKey(map, pair, ex) ==
    [p \in DOMAIN map \cup {<<pair[2], pair[1]>>} |->
        IF p = <<pair[2], pair[1]>> THEN ex ELSE map[p]]
PoolsInsert(map, pair, ex) ==
    [p \in DOMAIN map \cup {pair} |-> IF p = pair THEN ex ELSE map[p]]

EmptyMap == [p \in {} |-> None]

----------------------------------------------------------------------------
(* The call log *)

Entry(op, args) ==
    [op |-> op, idx |-> exchange_index, args |-> args, st |-> "pending",
     res |-> None]

Pending == Len(log) > 0 /\ log[Len(log)].st = "pending"

Issue(op, args) == log' = Append(log, Entry(op, args))

\* the pending call is answered: Ok(res), or an error
Answer(res) == log' = [log EXCEPT ![Len(log)].st = "ok", ![Len(log)].res = res]
Fail == log' = [log EXCEPT ![Len(log)].st = "err"]

Running(m, p) == mode = m /\ status = "running" /\ pc = p

\* a variant: the error is dropped and the statement runs again
PanicRetries(msg) == /\ status' = status
                     /\ panic' = msg
                     /\ UNCHANGED <<mode, pc, returned>>

\* a panic unwinds the entry point: nothing is returned
Panic(msg) == /\ status' = "panicked"
              /\ panic' = msg
              /\ UNCHANGED <<mode, pc, returned>>

\* only the log changes when a call is issued
IssueOnly == UNCHANGED <<mode, pc, status, panic, returned, setup_vars, tx_vars>>

\* a variant order: add_liquidity before the second deposit
NextStatementAddsEarly(m, p) ==
    CASE p = "height" -> "deploy"
      [] p = "deploy" -> "constructor"
      [] p = "constructor" -> IF m = "setup" THEN "deposit0" ELSE "return"
      [] p = "deposit0" -> "add_liquidity"
      [] p = "add_liquidity" -> "deposit1"
      [] p = "deposit1" -> IF m = "setup" THEN "add_pool" ELSE "return"
      [] p = "add_pool" -> "insert"
      [] p = "insert" -> "loop"

\* a variant order: the pool is inserted without add_pool
NextStatementSkipsAddPool(m, p) ==
    CASE p = "height" -> "deploy"
      [] p = "deploy" -> "constructor"
      [] p = "constructor" -> IF m = "setup" THEN "deposit0" ELSE "return"
      [] p = "deposit0" -> "deposit1"
      [] p = "deposit1" -> "add_liquidity"
      [] p = "add_liquidity" -> IF m = "setup" THEN "insert" ELSE "return"
      [] p = "add_pool" -> "insert"
      [] p = "insert" -> "loop"

\* a variant order: add_pool before the pool is seeded
NextStatementRegistersFirst(m, p) ==
    CASE p = "height" -> "deploy"
      [] p = "deploy" -> "constructor"
      [] p = "constructor" -> IF m = "setup" THEN "add_pool" ELSE "return"
      [] p = "add_pool" -> "deposit0"
      [] p = "deposit0" -> "deposit1"
      [] p = "deposit1" -> "add_liquidity"
      [] p = "add_liquidity" -> IF m = "setup" THEN "insert" ELSE "return"
      [] p = "insert" -> "loop"

\* The statement that follows statement p in the function executed for
\* entry point m ("return": the entry point returns to the test).
\*   deploy_and_construct_exchange: deploy_exchange, constructor
\*   deposit_and_add_liquidity:     deposit, deposit, add_liquidity
\*   setup_exchange_contract:       the two above, in this order
\*   setup_exchange_contracts:      setup_exchange_contract, add_pool,
\*                                  pools.insert, next iteration
NextStatement(m, p) ==
    CASE p = "height" -> "deploy"
      [] p = "deploy" -> "constructor"
      [] p = "constructor" -> IF m = "setup" THEN "deposit0" ELSE "return"
      [] p = "deposit0" -> "deposit1"
      [] p = "deposit1" -> "add_liquidity"
      [] p = "add_liquidity" -> IF m = "setup" THEN "add_pool" ELSE "return"
      [] p = "add_pool" -> "insert"
      [] p = "insert" -> "loop"

\* go to statement p; "return" hands `value` back to the caller
Goto(p, value) ==
    /\ mode' = mode
    /\ panic' = panic
    /\ IF p = "return"
       THEN status' = "done" /\ pc' = pc /\ returned' = Some(value)
       ELSE status' = status /\ pc' = p /\ returned' = returned

Proceed(value) == Goto(NextStatement(mode, pc), value)

\* a transaction that was executed produced a block
Mined == height' = height + 1

----------------------------------------------------------------------------
(* Initial states: one entry point per behaviour *)

NoConfig == ExchangeContractConfiguration_new(None, None, None, None)
NoLiquidity == LiquidityParameters_new(None, None, None)
NoExchange == [bytecode_root |-> None, id |-> None, pair |-> <<0, 0>>]

\* An ExchangeContract as an earlier run over <<1, 2>> left it in amm.pools
EarlierExchange ==
    [bytecode_root |-> None,
     id |-> ContractIdOf(EXCHANGE_CONTRACT_BINARY_PATH,
                         EXCHANGE_CONTRACT_STORAGE_PATH, SaltOf(0)),
     pair |-> <<1, 2>>]

\* amm.pools as deploy_amm creates it, or after an earlier run
InitialPools == {EmptyMap, PoolsInsert(EmptyMap, <<1, 2>>, EarlierExchange)}

RegisteredOf(map) == {<<p, map[p].id>> : p \in DOMAIN map}

InitCommon ==
    /\ status = "running"
    /\ panic = ""
    /\ returned = None
    /\ exchange_index = 0
    /\ deadline_height = 0
    /\ instance = None
    /\ pools_at_entry = pools
    /\ registered = RegisteredOf(pools)
    /\ asset_index = 0
    /\ input_coins = <<>>
    /\ output_variables = <<>>
    /\ log = <<>>

NoTransaction ==
    /\ resources = {}
    /\ assets = <<>>
    /\ amounts = None

NoSetup ==
    /\ asset_ids = <<>>
    /\ pools = EmptyMap
    /\ config = NoConfig
    /\ liquidity_parameters = NoLiquidity
    /\ exchange = NoExchange

\* setup_exchange_contracts(wallet, provider, amm, asset_ids)
InitSetup(lists) ==
    /\ mode = "setup"
    /\ pc = "loop"
    /\ asset_ids \in lists
    /\ height \in InitialHeights
    /\ pools \in InitialPools
    /\ config = NoConfig
    /\ liquidity_parameters = NoLiquidity
    /\ exchange = NoExchange
    /\ NoTransaction

\* deploy_and_construct_exchange(wallet, config), any configuration
InitConstruct ==
    /\ mode = "construct"
    /\ pc = "deploy"
    /\ asset_ids = <<>>
    /\ height \in InitialHeights
    /\ pools = EmptyMap
    /\ \E pair \in {None, Some(<<2, 3>>)},
          root \in {None, Some(TRUE), Some(FALSE)},
          mal \in {None, Some(TRUE), Some(FALSE)},
          salt \in {None, Some(SaltOf(1))} :
          config = ExchangeContractConfiguration_new(pair, root, mal, salt)
    /\ liquidity_parameters = NoLiquidity
    /\ exchange = NoExchange
    /\ NoTransaction

\* deposit_and_add_liquidity(liquidity_parameters, exchange, ..) on a
\* provisioned exchange
InitLiquidity ==
    /\ mode = "liquidity"
    /\ pc = "deposit0"
    /\ asset_ids = <<>>
    /\ height \in InitialHeights
    /\ pools = EmptyMap
    /\ config = NoConfig
    /\ \E a0 \in {0, 100000}, a1 \in {5, 100000}, d \in {0, 10},
          l \in {0, 100000} :
          liquidity_parameters =
              LiquidityParameters_new(Some(<<a0, a1>>), Some(d), Some(l))
    /\ exchange = EarlierExchange
    /\ NoTransaction

----------------------------------------------------------------------------
(* setup_exchange_contracts: the loop *)

\* `while exchange_index < asset_ids.len() - 1` and the first statement of
\* the body, which builds asset_pair and the exchange configuration
loop_test ==
    /\ Running("setup", "loop")
    /\ \/ /\ LoopOverflows(Len(asset_ids))
          /\ Panic("attempt to subtract with overflow")
          /\ UNCHANGED config
       \/ /\ LoopCondition(exchange_index, Len(asset_ids))
          /\ None \in {Get(asset_ids, exchange_index),
                       Get(asset_ids, exchange_index + 1)}
          /\ Panic("unwrap on None")
          /\ UNCHANGED config
       \/ /\ LoopCondition(exchange_index, Len(asset_ids))
          /\ None \notin {Get(asset_ids, exchange_index),
                          Get(asset_ids, exchange_index + 1)}
          /\ config' = ExchangeContractConfiguration_new(
                           Some(AssetPair(asset_ids, exchange_index)), None,
                           None, Some(SaltOf(exchange_index)))
          /\ Goto("height", None)
       \/ /\ ~LoopCondition(exchange_index, Len(asset_ids))
          /\ Goto("return", None)
          /\ UNCHANGED config
    /\ UNCHANGED <<asset_ids, exchange_index, liquidity_parameters,
                   deadline_height, instance, exchange, pools, registered,
                   pools_at_entry, height, tx_vars, log>>

\* provider.latest_block_height().await
height_call ==
    /\ Running("setup", "height")
    /\ ~Pending
    /\ Issue("latest_block_height", <<>>)
    /\ IssueOnly

\* .unwrap() + 10, and LiquidityParameters::new(..)
height_ret ==
    /\ Running("setup", "height")
    /\ Pending
    /\ \/ /\ Answer(Some(height))
          /\ deadline_height' = height
          /\ liquidity_parameters' =
                 LiquidityParameters_new(Some(Amounts(exchange_index)),
                                         Some(DeadlineOf(height)),
                                         Some(MinLiquidity))
          /\ Proceed(None)
       \/ /\ Fail
          /\ Panic("ProviderError")
          /\ UNCHANGED <<deadline_height, liquidity_parameters>>
    /\ UNCHANGED <<asset_ids, exchange_index, config, instance, exchange,
                   pools, registered, pools_at_entry, height, tx_vars>>

----------------------------------------------------------------------------
(* deploy_and_construct_exchange *)

AtStatement(p) == mode \in {"setup", "construct", "liquidity"}
                  /\ status = "running" /\ pc = p

\* deploy_exchange: Contract::deploy_with_parameters(binary_path, ..,
\* storage_path, Salt::from(config.salt)).await
deploy_call ==
    /\ AtStatement("deploy")
    /\ ~Pending
    /\ Issue("deploy", <<BinaryPath(config), StoragePath(config), config.salt>>)
    /\ IssueOnly

\* .unwrap(), then (id, instance) is returned
deploy_ret ==
    /\ AtStatement("deploy")
    /\ Pending
    /\ \/ /\ \E id \in {ContractIdOf(BinaryPath(config), StoragePath(config),
                                    config.salt)} :
                /\ Answer(Some(id))
                /\ instance' = id
          /\ Mined
          /\ Proceed(None)
       \/ /\ Fail
          /\ Panic("DeploymentError")
          /\ UNCHANGED <<instance, height>>
    /\ UNCHANGED <<asset_ids, exchange_index, config, liquidity_parameters,
                   deadline_height, exchange, pools, registered,
                   pools_at_entry, tx_vars>>

\* constructor(&instance, config.pair).await
constructor_call ==
    /\ AtStatement("constructor")
    /\ ~Pending
    /\ Issue("constructor", <<instance, config.pair>>)
    /\ IssueOnly

\* the ExchangeContract record built once the constructor call returned
ExchangeRecord(cfg, id) ==
    [bytecode_root |-> IF cfg.compute_bytecode_root
                       THEN Some(exchange_bytecode_root) ELSE None,
     id |-> id,
     pair |-> cfg.pair]

constructor_ret ==
    /\ AtStatement("constructor")
    /\ Pending
    /\ \/ /\ Answer(None)
          /\ exchange' = ExchangeRecord(config, instance)
          /\ Mined
          /\ Proceed(ExchangeRecord(config, instance))
       \/ /\ Fail
          /\ Panic("ConstructorError")
          /\ UNCHANGED <<exchange, height>>
    /\ UNCHANGED <<asset_ids, exchange_index, config, liquidity_parameters,
                   deadline_height, instance, pools, registered,
                   pools_at_entry, tx_vars>>

----------------------------------------------------------------------------
(* deposit_and_add_liquidity_with_response *)

\* deposit(&exchange.instance, amounts.0, exchange.pair.0).await
deposit0_call ==
    /\ AtStatement("deposit0")
    /\ ~Pending
    /\ Issue("deposit", <<exchange.id, liquidity_parameters.amounts[1],
                          exchange.pair[1]>>)
    /\ IssueOnly

\* deposit(&exchange.instance, amounts.1, exchange.pair.1).await
deposit1_call ==
    /\ AtStatement("deposit1")
    /\ ~Pending
    /\ Issue("deposit", <<exchange.id, liquidity_parameters.amounts[2],
                          exchange.pair[2]>>)
    /\ IssueOnly

\* either deposit returns
deposit_ret ==
    /\ AtStatement("deposit0") \/ AtStatement("deposit1")
    /\ Pending
    /\ \/ /\ Answer(None)
          /\ Mined
          /\ Proceed(None)
       \/ /\ Fail
          /\ Panic("InsufficientBalance")
          /\ UNCHANGED height
    /\ UNCHANGED <<asset_ids, exchange_index, config, liquidity_parameters,
                   deadline_height, instance, exchange, pools, registered,
                   pools_at_entry, tx_vars>>

\* add_liquidity(&exchange.instance, liquidity, deadline, ..).await
add_liquidity_call ==
    /\ AtStatement("add_liquidity")
    /\ ~Pending
    /\ Issue("add_liquidity", <<exchange.id, liquidity_parameters.liquidity,
                                liquidity_parameters.deadline>>)
    /\ IssueOnly

\* The exchange rejects add_liquidity when the deadline lies before the
\* block h the call executes in.
DeadlinePassed(deadline, h) == deadline < h

\* the response carries the liquidity minted, which
\* deposit_and_add_liquidity returns; the call executes in the next block
add_liquidity_ret ==
    /\ AtStatement("add_liquidity")
    /\ Pending
    /\ \/ /\ ~DeadlinePassed(liquidity_parameters.deadline, height + 1)
          /\ Answer(Some(liquidity_parameters.liquidity))
          /\ Mined
          /\ Proceed(liquidity_parameters.liquidity)
       \/ /\ Fail
          /\ IF DeadlinePassed(liquidity_parameters.deadline, height + 1)
             THEN Panic("DeadlineExceeded")
             ELSE Panic("SlippageExceeded")
          /\ UNCHANGED height
    /\ UNCHANGED <<asset_ids, exchange_index, config, liquidity_parameters,
                   deadline_height, instance, exchange, pools, registered,
                   pools_at_entry, tx_vars>>

----------------------------------------------------------------------------
(* setup_exchange_contracts: registration *)

\* add_pool(&amm.instance, asset_pair, exchange.id).await
add_pool_call ==
    /\ Running("setup", "add_pool")
    /\ ~Pending
    /\ Issue("add_pool", <<AssetPair(asset_ids, exchange_index), exchange.id>>)
    /\ IssueOnly

add_pool_ret ==
    /\ Running("setup", "add_pool")
    /\ Pending
    /\ \/ /\ Answer(None)
          /\ registered' = registered \cup
                 {<<AssetPair(asset_ids, exchange_index), exchange.id>>}
          /\ Mined
          /\ Proceed(None)
       \/ /\ Fail
          /\ Panic("AddPoolError")
          /\ UNCHANGED <<registered, height>>
    /\ UNCHANGED <<asset_ids, exchange_index, config, liquidity_parameters,
                   deadline_height, instance, exchange, pools, pools_at_entry,
                   tx_vars>>

\* amm.pools.insert(asset_pair, exchange); exchange_index += 1
pools_insert ==
    /\ Running("setup", "insert")
    /\ pools' = PoolsInsert(pools, AssetPair(asset_ids, exchange_index), exchange)
    /\ exchange_index' = exchange_index + 1
    /\ Proceed(None)
    /\ UNCHANGED <<asset_ids, config, liquidity_parameters, deadline_height,
                   instance, exchange, registered, pools_at_entry, height,
                   tx_vars, log>>

----------------------------------------------------------------------------
(* The wallet and the ledger's coin selection *)

\* setup_wallet_and_provider: setup_multiple_assets_coins gives the wallet
\* coins_per_asset coins of amount_per_coin for each of number_of_assets
\* assets.  A provider may also hold a message for the wallet, which
\* get_spendable_resources reports as Resource::Message.
WalletCoins(number_of_assets, coins_per_asset, amount_per_coin) ==
    {[kind |-> "Coin", utxo_id |-> (a - 1) * coins_per_asset + k,
      asset_id |-> a, amount |-> amount_per_coin] :
        a \in 1..number_of_assets, k \in 1..coins_per_asset}

WalletMessage == [kind |-> "Message", utxo_id |-> 0, asset_id |-> 1, amount |-> 15]

RECURSIVE SumAmounts(_)
SumAmounts(S) ==
    IF S = {} THEN 0
    ELSE LET r == CHOOSE x \in S : TRUE IN r.amount + SumAmounts(S \ {r})

\* a selection is answered as a Vec, here in the order of the identifiers
RECURSIVE SortedById(_)
SortedById(S) ==
    IF S = {} THEN <<>>
    ELSE LET r == CHOOSE x \in S : \A y \in S : x.utxo_id <= y.utxo_id
         IN <<r>> \o SortedById(S \ {r})

Spendable(asset) == {r \in resources : r.asset_id = asset}

\* get_spendable_resources(from, asset_id, amount): the selections the
\* ledger may answer, each covering the amount; none exists when the
\* wallet's resources of the asset do not reach the amount
Selections(asset, amount) ==
    {SortedById(S) : S \in {T \in SUBSET Spendable(asset) :
                               SumAmounts(T) >= amount}}

----------------------------------------------------------------------------
(* transaction_inputs_outputs *)

\* the amount argument of transaction_input_coin, before its unwrap
RequestedAmountOfFirst(amts, index) ==
    IF amts # None THEN Get(Unwrap(amts), 0) ELSE Some(MAXIMUM_INPUT_AMOUNT)
RequestedAmount(amts, index) ==
    IF amts # None THEN Get(Unwrap(amts), index) ELSE Some(MAXIMUM_INPUT_AMOUNT)

\* Input::CoinSigned { utxo_id, owner, amount, asset_id, .. } of one coin
InputOfRequestedAmount(coin, asset) ==
    [utxo_id |-> coin.utxo_id, amount |-> log[Len(log)].args[2],
     asset_id |-> asset]
InputOf(coin, asset) ==
    [utxo_id |-> coin.utxo_id, amount |-> coin.amount, asset_id |-> asset]

\* coins.iter().map(..).collect()
InputCoinsSkipsFirst(coins, asset) ==
    [k \in 1..(Len(coins) - 1) |-> InputOf(coins[k + 1], asset)]
InputCoins(coins, asset) == [k \in 1..Len(coins) |-> InputOf(coins[k], asset)]

\* transaction_output_variable()
transaction_output_variable == [amount |-> 0, to |-> 0, asset_id |-> 0]

\* the outputs pushed for one asset
PushedOutputsPerCoin(coins) == [k \in 1..Len(coins) |-> transaction_output_variable]
PushedOutputs(coins) == <<transaction_output_variable>>

\* TransactionParameters { inputs, outputs }
TransactionParameters(ins, outs) == [inputs |-> ins, outputs |-> outs]

\* what `.unwrap()` makes of the error of get_spendable_resources
OnQueryErrorSkips(e) == "skip"
OnQueryError(e) == "panic"

\* The wallets of the model: small or large coins and no message, and one
\* wallet that also holds a message.
Wallets ==
    {WalletCoins(NumTxAssets, c, a) : c \in 1..MaxCoins, a \in {10, 500000}}
    \cup {WalletCoins(NumTxAssets, 1, 10) \cup {WalletMessage}}

\* transaction_inputs_outputs(wallet, provider, assets, amounts): amounts is
\* None, or as long as assets, or one short of it
InitTransaction ==
    /\ mode = "transaction"
    /\ pc = "for"
    /\ height = 0
    /\ NoSetup
    /\ resources \in Wallets
    /\ assets \in SeqsUpTo(1..NumTxAssets, MaxTxAssets)
    /\ amounts \in {None} \cup
           {Some(s) : s \in UNION {SeqsOfLen({0, 15, 1000000}, n) :
                                     n \in {Len(assets) - 1, Len(assets)} \ {-1}}}

\* `for (asset_index, asset) in assets.iter().enumerate()`: the next asset's
\* amount is evaluated and transaction_input_coin issues its query; after
\* the last asset the TransactionParameters are returned
for_next ==
    /\ Running("transaction", "for")
    /\ \/ /\ asset_index < Len(assets)
          /\ RequestedAmount(amounts, asset_index) = None
          /\ Panic("unwrap on None")
          /\ UNCHANGED log
       \/ /\ asset_index < Len(assets)
          /\ RequestedAmount(amounts, asset_index) # None
          /\ Issue("get_spendable_resources",
                   <<assets[asset_index + 1],
                     Unwrap(RequestedAmount(amounts, asset_index))>>)
          /\ Goto("query", None)
       \/ /\ asset_index = Len(assets)
          /\ Goto("return", TransactionParameters(input_coins, output_variables))
          /\ UNCHANGED log
    /\ UNCHANGED <<setup_vars, tx_vars>>

\* the query is answered with a selection: every resource becomes an input
\* (a resource that is no coin panics), one output is pushed
query_ok ==
    /\ Running("transaction", "query")
    /\ Pending
    /\ \E coins \in Selections(log[Len(log)].args[1], log[Len(log)].args[2]) :
          /\ Answer(Some(coins))
          /\ IF \E k \in 1..Len(coins) : coins[k].kind # "Coin"
             THEN /\ Panic("Resource type does not match")
                  /\ UNCHANGED <<asset_index, input_coins, output_variables>>
             ELSE /\ input_coins' =
                        input_coins \o InputCoins(coins, assets[asset_index + 1])
                  /\ output_variables' = output_variables \o PushedOutputs(coins)
                  /\ asset_index' = asset_index + 1
                  /\ Goto("for", None)
    /\ UNCHANGED <<setup_vars, resources, assets, amounts>>

\* the query fails: no sufficient selection exists, or the provider failed
query_err ==
    /\ Running("transaction", "query")
    /\ Pending
    /\ Fail
    /\ \E e \in IF Selections(log[Len(log)].args[1], log[Len(log)].args[2]) = {}
                THEN {"InsufficientFunds"}
                ELSE {"ProviderError"} :
          IF OnQueryError(e) = "panic"
          THEN /\ Panic(e)
               /\ UNCHANGED <<asset_index, input_coins, output_variables>>
          ELSE /\ asset_index' = asset_index + 1
               /\ output_variables' = output_variables \o PushedOutputs(<<>>)
               /\ UNCHANGED input_coins
               /\ Goto("for", None)
    /\ UNCHANGED <<setup_vars, resources, assets, amounts>>

TransactionNext ==
    \/ for_next
    \/ query_ok
    \/ query_err

----------------------------------------------------------------------------
(* Specifications *)

SetupNext ==
    \/ loop_test
    \/ height_call
    \/ height_ret
    \/ deploy_call
    \/ deploy_ret
    \/ constructor_call
    \/ constructor_ret
    \/ deposit0_call
    \/ deposit1_call
    \/ deposit_ret
    \/ add_liquidity_call
    \/ add_liquidity_ret
    \/ add_pool_call
    \/ add_pool_ret
    \/ pools_insert

Init ==
    /\ \/ InitSetup(SeqsUpTo(AssetIds, MaxAssets))
       \/ InitConstruct
       \/ InitLiquidity
       \/ InitTransaction
    /\ InitCommon

Next == SetupNext \/ TransactionNext

Spec == Init /\ [][Next]_vars

\* one run over a list of LongLen distinct assets
LongList == [i \in 1..LongLen |-> i]

InitLong == InitSetup({LongList}) /\ InitCommon

SpecLong == InitLong /\ [][SetupNext]_vars

----------------------------------------------------------------------------
(* The state of a run after its first iterations *)

\* The objects iteration i of a run over ids builds, the block height being
\* h when the iteration starts
IterationConfig(ids, i) ==
    ExchangeContractConfiguration_new(Some(AssetPair(ids, i)), None, None,
                                      Some(SaltOf(i)))

IterationId(ids, i) ==
    ContractIdOf(BinaryPath(IterationConfig(ids, i)),
                 StoragePath(IterationConfig(ids, i)),
                 IterationConfig(ids, i).salt)

IterationLiquidity(i, h) ==
    LiquidityParameters_new(Some(Amounts(i)), Some(DeadlineOf(h)),
                            Some(MinLiquidity))

IterationExchange(ids, i) ==
    ExchangeRecord(IterationConfig(ids, i), IterationId(ids, i))

Returned(op, i, args, res) ==
    [op |-> op, idx |-> i, args |-> args, st |-> "ok", res |-> res]

\* the calls of iteration i when every one of them succeeds
IterationLog(ids, i, h) ==
    LET cfg == IterationConfig(ids, i)
        id == IterationId(ids, i)
        lp == IterationLiquidity(i, h)
    IN <<Returned("latest_block_height", i, <<>>, Some(h)),
         Returned("deploy", i,
                  <<BinaryPath(cfg), StoragePath(cfg), cfg.salt>>, Some(id)),
         Returned("constructor", i, <<id, cfg.pair>>, None),
         Returned("deposit", i, <<id, lp.amounts[1], cfg.pair[1]>>, None),
         Returned("deposit", i, <<id, lp.amounts[2], cfg.pair[2]>>, None),
         Returned("add_liquidity", i, <<id, lp.liquidity, lp.deadline>>,
                  Some(lp.liquidity)),
         Returned("add_pool", i, <<AssetPair(ids, i), id>>, None)>>

\* six transactions are mined per iteration
LogAfter(ids, k, h0) ==
    [n \in 1..(7 * k) |->
        IterationLog(ids, (n - 1) \div 7, h0 + 6 * ((n - 1) \div 7))
            [((n - 1) % 7) + 1]]

\* every pair holds the exchange of the last iteration that inserted it
PoolsAfter(ids, k, p0) ==
    [p \in DOMAIN p0 \cup {AssetPair(ids, i) : i \in 0..(k - 1)} |->
        LET its == {i \in 0..(k - 1) : AssetPair(ids, i) = p}
        IN IF its = {} THEN p0[p]
           ELSE IterationExchange(ids, CHOOSE i \in its : \A j \in its : j <= i)]

\* the state at the loop test, k iterations having succeeded, of a run
\* over ids that started at block height h0 with amm.pools = p0
AfterIterations(ids, k, h0, p0) ==
    /\ mode = "setup"
    /\ pc = "loop"
    /\ status = "running"
    /\ panic = ""
    /\ returned = None
    /\ asset_ids = ids
    /\ exchange_index = k
    /\ pools_at_entry = p0
    /\ height = h0 + 6 * k
    /\ log = LogAfter(ids, k, h0)
    /\ pools = PoolsAfter(ids, k, p0)
    /\ registered = RegisteredOf(p0) \cup
           {<<AssetPair(ids, i), IterationId(ids, i)>> : i \in 0..(k - 1)}
    /\ config = IF k = 0 THEN NoConfig ELSE IterationConfig(ids, k - 1)
    /\ liquidity_parameters =
           IF k = 0 THEN NoLiquidity
           ELSE IterationLiquidity(k - 1, h0 + 6 * (k - 1))
    /\ deadline_height = IF k = 0 THEN 0 ELSE h0 + 6 * (k - 1)
    /\ instance = IF k = 0 THEN None ELSE IterationId(ids, k - 1)
    /\ exchange = IF k = 0 THEN NoExchange ELSE IterationExchange(ids, k - 1)
    /\ NoTransaction
    /\ asset_index = 0
    /\ input_coins = <<>>
    /\ output_variables = <<>>

\* every loop test of a run is reached in the state AfterIterations
\* describes (checked under Spec and SpecLong)
LoopTestStates ==
    (mode = "setup" /\ pc = "loop" /\ status = "running") =>
        AfterIterations(asset_ids, exchange_index,
                        height - 6 * exchange_index, pools_at_entry)

\* the last iterations of the run over the long list
TailLength == 3

InitTail ==
    \E k \in (LongLen - 1 - TailLength)..(LongLen - 2),
       h0 \in InitialHeights, p0 \in InitialPools :
        AfterIterations(LongList, k, h0, p0)

SpecTail == InitTail /\ [][SetupNext]_vars

----------------------------------------------------------------------------
(* Properties *)

Calls(op) == SelectSeq(log, LAMBDA e : e.op = op)

SetupDone == mode = "setup" /\ status = "done"

\* the i-th consecutive pair of the asset list, i = 1..n-1
PairAt(i) == <<asset_ids[i], asset_ids[i + 1]>>

DistinctPairs ==
    \A i, j \in 1..(Len(asset_ids) - 1) : i # j => PairAt(i) # PairAt(j)

Min(a, b) == IF a <= b THEN a ELSE b

\* C1: a completed run of setup_exchange_contracts over n assets has
\* deployed and constructed exactly n-1 exchanges, the i-th with the pair
\* (assets[i], assets[i+1]), and has issued exactly n-1 add_pool calls, the
\* i-th with that pair and the ContractId the i-th deployment returned.
C1_ChainProvisioned ==
    SetupDone =>
        LET n == Len(asset_ids)
            D == Calls("deploy")
            K == Calls("constructor")
            P == Calls("add_pool")
        IN /\ Len(D) = n - 1
           /\ Len(K) = n - 1
           /\ Len(P) = n - 1
           /\ \A i \in 1..(n - 1) :
                 /\ D[i].st = "ok" /\ K[i].st = "ok" /\ P[i].st = "ok"
                 /\ D[i].idx = i - 1 /\ K[i].idx = i - 1 /\ P[i].idx = i - 1
                 /\ K[i].args = <<Unwrap(D[i].res), PairAt(i)>>
                 /\ P[i].args = <<PairAt(i), Unwrap(D[i].res)>>

C1_Witness ==
    /\ SetupDone
    /\ Len(asset_ids) = 3
    /\ asset_ids[1] # asset_ids[2]
    /\ Len(Calls("add_pool")) = 2

\* C2 as stated: a completed run on a registry whose pools map was empty
\* leaves exactly n-1 entries, keyed by the consecutive pairs.
C2_Original ==
    (SetupDone /\ pools_at_entry = EmptyMap) =>
        /\ Cardinality(DOMAIN pools) = Len(asset_ids) - 1
        /\ DOMAIN pools = {PairAt(i) : i \in 1..(Len(asset_ids) - 1)}

\* C2 amended: the same, for asset lists whose consecutive pairs are
\* pairwise distinct.
C2_DistinctPairsAllRegistered ==
    (SetupDone /\ pools_at_entry = EmptyMap /\ DistinctPairs) =>
        /\ Cardinality(DOMAIN pools) = Len(asset_ids) - 1
        /\ DOMAIN pools = {PairAt(i) : i \in 1..(Len(asset_ids) - 1)}

C2_Witness ==
    /\ SetupDone
    /\ pools_at_entry = EmptyMap
    /\ DistinctPairs
    /\ Len(asset_ids) = 3
    /\ Cardinality(DOMAIN pools) = 2

\* the calls of the deposit_and_add_liquidity call in progress (or just
\* finished), and the three calls its arguments prescribe
PipelineCalls ==
    SelectSeq(log, LAMBDA e : /\ e.idx = exchange_index
                              /\ e.op \in {"deposit", "add_liquidity"})

PipelineExpected ==
    <<[op |-> "deposit",
       args |-> <<exchange.id, liquidity_parameters.amounts[1], exchange.pair[1]>>],
      [op |-> "deposit",
       args |-> <<exchange.id, liquidity_parameters.amounts[2], exchange.pair[2]>>],
      [op |-> "add_liquidity",
       args |-> <<exchange.id, liquidity_parameters.liquidity,
                  liquidity_parameters.deadline>>]>>

PipelineReturned ==
    \/ mode = "liquidity" /\ status = "done"
    \/ mode = "setup" /\ pc \in {"add_pool", "insert"}

\* C3: the calls of one deposit_and_add_liquidity call are, in this order,
\* deposit(amounts.0, pair.0), deposit(amounts.1, pair.1) and
\* add_liquidity(liquidity, deadline), each issued only once the previous
\* one has returned; a call that returns has issued exactly these three.
C3_DepositsThenAddLiquidity ==
    /\ Len(PipelineCalls) <= 3
    /\ \A k \in 1..Len(PipelineCalls) :
          /\ PipelineCalls[k].op = PipelineExpected[k].op
          /\ PipelineCalls[k].args = PipelineExpected[k].args
          /\ k < Len(PipelineCalls) => PipelineCalls[k].st = "ok"
    /\ PipelineReturned =>
          /\ Len(PipelineCalls) = 3
          /\ PipelineCalls[3].st = "ok"

C3_Witness ==
    /\ mode = "liquidity"
    /\ status = "done"
    /\ Len(log) = 3
    /\ log[3].op = "add_liquidity"
    /\ liquidity_parameters.amounts[1] # liquidity_parameters.amounts[2]

\* the ledger calls of one iteration of setup_exchange_contracts
IterationCalls ==
    <<"latest_block_height", "deploy", "constructor", "deposit", "deposit",
      "add_liquidity", "add_pool">>

\* C4: the calls of pool i are issued in the order deploy, constructor,
\* deposit of asset 0, deposit of asset 1, add_liquidity, add_pool, each
\* once and on the exchange deployed for pool i, each after the previous
\* call returned; pools.insert(i) follows the return of add_pool(i), and no
\* call of pool i+1 precedes it.
C4_IterationOrder ==
    mode = "setup" =>
        /\ \A k \in 1..Len(log) :
              LET e == log[k]
                  i == (k - 1) \div 7
                  r == ((k - 1) % 7) + 1
              IN /\ e.idx = i
                 /\ e.op = IterationCalls[r]
                 /\ k < Len(log) => e.st = "ok"
                 /\ r \in 3..6 => e.args[1] = Unwrap(log[k - r + 2].res)
                 /\ r = 4 => e.args[3] = asset_ids[i + 1]
                 /\ r = 5 => e.args[3] = asset_ids[i + 2]
                 /\ r = 7 => e.args[2] = Unwrap(log[k - 5].res)
        /\ 7 * exchange_index <= Len(log)
        /\ Len(log) <= 7 * exchange_index + 7
        /\ exchange_index > 0 => log[7 * exchange_index].st = "ok"
        /\ pc = "insert" => Len(log) = 7 * exchange_index + 7 /\ ~Pending

C4_Witness ==
    /\ mode = "setup"
    /\ exchange_index = 1
    /\ Len(log) = 14
    /\ log[14].op = "add_pool"
    /\ log[14].st = "ok"

\* C5 as stated: the deployments of one run carry pairwise distinct salts
\* and return pairwise distinct ContractIds.  (The log only grows, so it is
\* enough that the latest deployment differs from every earlier one.)
C5_DistinctSalts ==
    (mode = "setup" /\ Len(log) > 0 /\ log[Len(log)].op = "deploy") =>
        \A k \in 1..(Len(log) - 1) :
            log[k].op = "deploy" =>
                /\ log[k].args[3] # log[Len(log)].args[3]
                /\ log[Len(log)].st = "ok" => log[k].res # log[Len(log)].res

\* C6: in a chain built by setup_exchange_contracts the deposits of pool i
\* are 100000 of assets[i] and 100000 * (i + 1) of assets[i+1], and the
\* minimum liquidity passed to add_liquidity is the smaller of the two.
C6_SeededAmounts ==
    mode = "setup" =>
        \A k \in 2..Len(log) :
            LET e == log[k] IN
            /\ (e.op = "deposit" /\ log[k - 1].op # "deposit") =>
                  e.args[2] = 100000 /\ e.args[3] = asset_ids[e.idx + 1]
            /\ (e.op = "deposit" /\ log[k - 1].op = "deposit") =>
                  /\ e.args[2] = 100000 * (e.idx + 1)
                  /\ e.args[3] = asset_ids[e.idx + 2]
            /\ e.op = "add_liquidity" =>
                  e.args[2] = Min(100000, 100000 * (e.idx + 1))

C6_Witness ==
    /\ mode = "setup"
    /\ Len(log) > 0
    /\ log[Len(log)].op = "add_liquidity"
    /\ log[Len(log)].idx = 1
    /\ log[Len(log) - 1].args[2] = 200000

----------------------------------------------------------------------------
(* Properties of transaction_inputs_outputs *)

TransactionDone == mode = "transaction" /\ status = "done"

\* the amount requested for the asset at position i (1-based)
Requested(i) ==
    IF amounts = None THEN 1000000 ELSE Unwrap(amounts)[i]

RECURSIVE SumOfAsset(_, _)
SumOfAsset(ins, asset) ==
    IF ins = <<>> THEN 0
    ELSE (IF Head(ins).asset_id = asset THEN Head(ins).amount ELSE 0)
         + SumOfAsset(Tail(ins), asset)

\* C7: the outputs returned hold exactly one variable output per element of
\* assets, however many inputs were selected.
C7_OneOutputPerAsset ==
    TransactionDone =>
        /\ Len(Unwrap(returned).outputs) = Len(assets)
        /\ \A k \in 1..Len(assets) :
              Unwrap(returned).outputs[k] = [amount |-> 0, to |-> 0, asset_id |-> 0]

C7_Witness ==
    /\ TransactionDone
    /\ Len(assets) = 2
    /\ Len(Unwrap(returned).inputs) > 2

\* C8: a call that returns was given an amount for every asset (or none at
\* all), and for every asset of the request the returned inputs carrying
\* its id sum to at least the amount requested for it.
C8_InputsCoverRequest ==
    TransactionDone =>
        /\ amounts # None => Len(Unwrap(amounts)) >= Len(assets)
        /\ \A i \in 1..Len(assets) :
              SumOfAsset(Unwrap(returned).inputs, assets[i]) >= Requested(i)

C8_Witness ==
    /\ TransactionDone
    /\ assets = <<1, 2>>
    /\ amounts = Some(<<15, 15>>)
    /\ Len(Unwrap(returned).inputs) = 4

C10_InsufficientFundsFails ==
    mode = "transaction" =>
        \A k \in 1..Len(log) :
            log[k].st = "err" =>
                /\ status = "panicked"
                /\ returned = None
                /\ k = Len(log)
                /\ Selections(log[k].args[1], log[k].args[2]) = {} =>
                      panic = "InsufficientFunds"

C10_Witness ==
    /\ mode = "transaction"
    /\ status = "panicked"
    /\ panic = "InsufficientFunds"
    /\ Len(log) = 2
    /\ Len(input_coins) >= 1

----------------------------------------------------------------------------
(* Properties of a failing setup_exchange_contracts run *)

SetupFailed == mode = "setup" /\ status = "panicked"

\* the identity the deployment of pool i (0-based) returned
DeployedId(i) ==
    Unwrap(log[CHOOSE k \in 1..Len(log) :
                   log[k].op = "deploy" /\ log[k].idx = i].res)

\* the last pool below k that was inserted under the pair of pool i
LastWithPair(i, k) ==
    CHOOSE j \in 0..(k - 1) :
        /\ PairAt(j + 1) = PairAt(i + 1)
        /\ \A l \in 0..(k - 1) : PairAt(l + 1) = PairAt(i + 1) => l <= j

----------------------------------------------------------------------------
(* Properties of every entry point *)

\* the calls of operation op issued for pool i
CallsOf(op, i) == {k \in 1..Len(log) : log[k].op = op /\ log[k].idx = i}

\* C12: a failed ledger operation is the last one the call issues, and the
\* call ends in failure; no step is submitted twice: per pool at most one
\* height query, deploy, constructor, add_liquidity and add_pool and at most
\* two deposits, and per requested asset at most one resource query.
C12_NoRetry ==
    /\ \A k \in 1..Len(log) :
          log[k].st = "err" =>
              /\ k = Len(log)
              /\ status = "panicked"
              /\ returned = None
    /\ \A k \in 1..(Len(log) - 1) : log[k].st = "ok"
    /\ \A i \in 0..exchange_index :
          /\ \A op \in {"latest_block_height", "deploy", "constructor",
                        "add_liquidity", "add_pool"} :
                Cardinality(CallsOf(op, i)) <= 1
          /\ Cardinality(CallsOf("deposit", i)) <= 2
    /\ mode = "transaction" =>
          /\ Len(log) <= Len(assets)
          /\ \A k \in 1..Len(log) :
                /\ log[k].op = "get_spendable_resources"
                /\ log[k].args[1] = assets[k]

C12_Witness ==
    /\ mode = "setup"
    /\ status = "panicked"
    /\ exchange_index = 1
    /\ log[Len(log)].op = "deposit"
    /\ log[Len(log)].st = "err"
    /\ log[Len(log) - 1].op = "deposit"

----------------------------------------------------------------------------
(* Properties of deploy_and_construct_exchange and deploy_exchange *)

ConstructDone == mode = "construct" /\ status = "done"

\* C13: the record returned for a configuration with malicious = true never
\* carries the root of the legitimate exchange binary.
C13_MaliciousNeverLegitimateRoot ==
    (ConstructDone /\ config.malicious) =>
        Unwrap(returned).bytecode_root # Some(exchange_bytecode_root)

\* the deployments that returned an identity
Deployed == {k \in 1..Len(log) : log[k].op = "deploy" /\ log[k].st = "ok"}

----------------------------------------------------------------------------
(* Properties of the deadline *)

\* C15: in a run of setup_exchange_contracts the deadline passed to
\* add_liquidity for a pool is the block height read for that pool plus 10;
\* it is not below the height of the block the call executes in, and no
\* run fails with DeadlineExceeded.
C15_DeadlineNeverPassed ==
    mode = "setup" =>
        /\ \A k \in 1..Len(log) :
              log[k].op = "add_liquidity" =>
                  \E j \in 1..(k - 1) :
                      /\ log[j].op = "latest_block_height"
                      /\ log[j].idx = log[k].idx
                      /\ log[k].args[3] = Unwrap(log[j].res) + 10
        /\ (pc = "add_liquidity" /\ Pending) =>
              log[Len(log)].args[3] >= height + 1
        /\ panic # "DeadlineExceeded"

C15_Witness ==
    /\ mode = "setup"
    /\ pc = "add_liquidity"
    /\ Pending
    /\ exchange_index = 1
    /\ height = 15
    /\ log[Len(log)].args[3] = 21

----------------------------------------------------------------------------
(* Further properties of transaction_inputs_outputs *)

\* C16: no UTXO identifier appears in more than one input of a returned
\* input sequence.
C16_EachResourceOnce ==
    TransactionDone =>
        \A i, j \in 1..Len(Unwrap(returned).inputs) :
            i # j => Unwrap(returned).inputs[i].utxo_id
                         # Unwrap(returned).inputs[j].utxo_id

----------------------------------------------------------------------------
(* Properties of amm.pools *)

\* C17: no step removes an entry of amm.pools: the keys after a step
\* include the keys before it and the entry count does not decrease;
\* hence the keys of the map at entry, empty as deploy_amm creates it or
\* left by an earlier run, are keys of the map ever after.
C17_PoolsGrowMonotonically ==
    [][/\ DOMAIN pools \subseteq DOMAIN pools'
       /\ Cardinality(DOMAIN pools') >= Cardinality(DOMAIN pools)
       /\ DOMAIN pools_at_entry' \subseteq DOMAIN pools']_vars

C17_Witness ==
    /\ SetupDone
    /\ asset_ids = <<2, 3, 2>>
    /\ DOMAIN pools_at_entry = {<<1, 2>>}
    /\ DOMAIN pools = {<<1, 2>>, <<2, 3>>, <<3, 2>>}

----------------------------------------------------------------------------
(* The queries of transaction_inputs_outputs *)

\* the inputs made of the coins the first n queries selected, in order
RECURSIVE SelectedInputs(_)
SelectedInputs(n) ==
    IF n = 0 THEN <<>>
    ELSE SelectedInputs(n - 1) \o
         [k \in 1..Len(Unwrap(log[n].res)) |->
             [utxo_id |-> Unwrap(log[n].res)[k].utxo_id,
              amount |-> Unwrap(log[n].res)[k].amount,
              asset_id |-> log[n].args[1]]]

\* C18: the queries are issued in the order of assets, the k-th for
\* assets[k] and amounts[k], or 1000000 when amounts is absent; a call that
\* returns has issued exactly len(assets) queries and returns as inputs the
\* coins selected, in that order, each with the queried asset id and the
\* coin's own amount.
C18_QueriesInOrder ==
    mode = "transaction" =>
        /\ Len(log) <= Len(assets)
        /\ \A k \in 1..Len(log) :
              /\ log[k].op = "get_spendable_resources"
              /\ log[k].args[1] = assets[k]
              /\ log[k].args[2] = IF amounts = None THEN 1000000
                                  ELSE Unwrap(amounts)[k]
        /\ status = "done" =>
              /\ Len(log) = Len(assets)
              /\ Unwrap(returned).inputs = SelectedInputs(Len(log))

C18_Witness ==
    /\ TransactionDone
    /\ assets = <<2, 1>>
    /\ amounts = None
    /\ Len(Unwrap(returned).inputs) = 4
    /\ Unwrap(returned).inputs[1].asset_id = 2
    /\ Unwrap(returned).inputs[1].amount = 500000

----------------------------------------------------------------------------
(* Consistency of amm.pools with the registry contract *)

\* C19: in every state of a setup_exchange_contracts run, every entry of
\* the local map is keyed by its exchange's pair and was registered on the
\* registry contract under that pair and the exchange's identity: it is an
\* entry the map held at entry, or an add_pool(pair, id) call of the run
\* completed for it, id being what the deployment of that pool returned.
C19_PoolsMatchRegistry ==
    mode = "setup" =>
        \A p \in DOMAIN pools :
            /\ pools[p].pair = p
            /\ <<p, pools[p].id>> \in registered
            /\ \/ /\ p \in DOMAIN pools_at_entry
                  /\ pools[p] = pools_at_entry[p]
               \/ \E k \in 1..Len(log) :
                     /\ log[k].op = "add_pool"
                     /\ log[k].st = "ok"
                     /\ log[k].args = <<p, pools[p].id>>
                     /\ \E j \in 1..(k - 1) :
                           /\ log[j].op = "deploy"
                           /\ log[j].idx = log[k].idx
                           /\ log[j].res = Some(pools[p].id)

C19_Witness ==
    /\ SetupFailed
    /\ asset_ids = <<3, 1, 2>>
    /\ exchange_index = 1
    /\ pools_at_entry # EmptyMap
    /\ log[Len(log)].op = "constructor"
    /\ <<3, 1>> \in DOMAIN pools

----------------------------------------------------------------------------
(* Termination of setup_exchange_contracts *)

\* C20: a run in which no ledger operation failed does not fail; when it
\* has returned it has made max(len(asset_ids) - 1, 0) iterations; for a
\* list of fewer than two assets it issues no ledger operation, leaves
\* amm.pools and the registry as they were, and does not fail.
C20_TerminatesNormally ==
    mode = "setup" =>
        /\ status = "panicked" =>
              (Len(log) > 0 /\ log[Len(log)].st = "err")
        /\ status = "done" =>
              exchange_index =
                  (IF Len(asset_ids) >= 1 THEN Len(asset_ids) - 1 ELSE 0)
        /\ Len(asset_ids) < 2 =>
              /\ log = <<>>
              /\ pools = pools_at_entry
              /\ registered = {<<p, pools_at_entry[p].id>> :
                                  p \in DOMAIN pools_at_entry}
              /\ status # "panicked"

====
